---- MODULE Spec2Model ----
(***************************************************************************)
(* Model of the chip_i2c driver (src/chip_i2c.c): an MCP23017 I/O expander *)
(* on an I2C bus, PORTA latched outputs (leds), PORTB inputs (switches).   *)
(*                                                                         *)
(* Threads: the driver core's lifecycle thread (Host: probe, remove) and   *)
(* the sysfs callers that run set_chip_led / get_chip_switch.  Every step  *)
(* of chip_read_value / chip_write_value (mutex_lock, the SMBus transfer's *)
(* start and completion, mutex_unlock) is one action, so that interleaved  *)
(* callers are visible.  Texts are sequences of one-character strings.     *)
(*                                                                         *)
(* Kernel services the driver calls are modelled by their contract:        *)
(*  - i2c_smbus_write_byte_data / i2c_smbus_read_byte_data complete with   *)
(*    success or a negative errno; a failed write leaves the register.     *)
(*  - device_create_file makes the attribute callable (the driver ignores  *)
(*    its result; the model takes the creation to succeed).                *)
(*  - device_remove_file stops new callers of the attribute and returns    *)
(*    only when the callers inside its show/store method have left.        *)
(*  - devm_kzalloc memory is freed by the driver core after remove         *)
(*    returns.                                                             *)
(***************************************************************************)
EXTENDS Integers, Sequences, FiniteSets, TLC

(* ------------------------------------------------------------------ *)
(* Bounds of the model                                                  *)
(* ------------------------------------------------------------------ *)
\* number of probe calls the host makes
MaxBinds == 2
\* number of sysfs attribute calls started over a run
MaxCalls == 2
\* the largest candidate address offered to chip_i2c_detect (7-bit addresses)
MaxAddr == 127

(* ------------------------------------------------------------------ *)
(* Program constants                                                    *)
(* ------------------------------------------------------------------ *)
REG_CHIP_DIR_PORTA == 0
REG_CHIP_DIR_PORTB == 1
REG_CHIP_PORTB_LIN == 19
REG_CHIP_PORTA_LOUT == 20
\* the one hardwired address chip_i2c_detect matches (0x21)
ChipAddress == 33
\* normal_i2c[]: the addresses the kernel scans (0x20, 0x21)
normal_i2c == <<32, 33>>
\* errno values returned negated
ENODEV == 19
ENOMEM == 12
EINVAL == 22
ERANGE == 34
EIO == 5
ETIMEDOUT == 110
\* id->driver_data of the { "chip_i2c", 0 } entry of chip_i2c_id
DriverData == 0
\* MCP23017 IODIR power-on value (all pins input)
DirReset == 255
\* I2C_FUNC_SMBUS_BYTE_DATA is one functionality bit of the adapter
I2C_FUNC_SMBUS_BYTE_DATA == "smbus_byte_data"
DriverName == "chip_i2c"

(* ------------------------------------------------------------------ *)
(* Text: kstrtoint(buf, 10, &value) and sprintf(buf, "%d\n", value)     *)
(* ------------------------------------------------------------------ *)
DigitChars == <<"0", "1", "2", "3", "4", "5", "6", "7", "8", "9">>

IsDigit(c) == \E i \in 1..10 : DigitChars[i] = c

DigitVal(c) == (CHOOSE i \in 1..10 : DigitChars[i] = c) - 1

\* _parse_integer: the number of leading decimal digits of s from index i
RECURSIVE DigitRun(_, _)
DigitRun(s, i) ==
    IF i <= Len(s) /\ IsDigit(s[i]) THEN 1 + DigitRun(s, i + 1) ELSE 0

RECURSIVE StripZeros(_)
StripZeros(ds) ==
    IF Len(ds) > 1 /\ ds[1] = "0" THEN StripZeros(Tail(ds)) ELSE ds

\* a > b for digit strings without leading zeros (magnitudes are compared as
\* digit strings: kstrtoint works on 64-bit values, TLC's integers are 32-bit)
DigitsGreater(a, b) ==
    IF Len(a) # Len(b) THEN Len(a) > Len(b)
    ELSE \E i \in 1..Len(a) :
            /\ \A j \in 1..(i - 1) : a[j] = b[j]
            /\ DigitVal(a[i]) > DigitVal(b[i])

ULLONG_MAX_Digits ==
    <<"1","8","4","4","6","7","4","4","0","7","3","7","0","9","5","5","1","6","1","5">>
INT_MAX_Digits == <<"2","1","4","7","4","8","3","6","4","7">>
INT_MIN_Digits == <<"2","1","4","7","4","8","3","6","4","8">>

\* the value of a digit string, accumulated with the sign so that INT_MIN fits
RECURSIVE SignedValue(_, _, _)
SignedValue(ds, neg, acc) ==
    IF ds = <<>> THEN acc
    ELSE SignedValue(Tail(ds), neg,
                     IF neg THEN acc * 10 - DigitVal(ds[1])
                            ELSE acc * 10 + DigitVal(ds[1]))

\* kstrtoint(s, 10, &value): [err |-> 0 or -errno, value |-> the int]
kstrtoint(s) ==
    LET neg   == Len(s) >= 1 /\ s[1] = "-"
        plus  == Len(s) >= 1 /\ s[1] = "+"
        start == IF neg \/ plus THEN 2 ELSE 1
        n     == DigitRun(s, start)
        ds    == StripZeros(SubSeq(s, start, start + n - 1))
        rest  == start + n
        after == IF rest <= Len(s) /\ s[rest] = "\n" THEN rest + 1 ELSE rest
    IN  IF n > 0 /\ DigitsGreater(ds, ULLONG_MAX_Digits)
            THEN [err |-> -ERANGE, value |-> 0]
        ELSE IF n = 0 THEN [err |-> -EINVAL, value |-> 0]
        ELSE IF after <= Len(s) THEN [err |-> -EINVAL, value |-> 0]
        ELSE IF DigitsGreater(ds, IF neg THEN INT_MIN_Digits ELSE INT_MAX_Digits)
            THEN [err |-> -ERANGE, value |-> 0]
        ELSE [err |-> 0, value |-> SignedValue(ds, neg, 0)]

\* the (u16) cast of set_chip_led's argument
CastU16(v) == v % 65536

\* a narrowing to 8 bits that clamps at 255, where C's conversion wraps
CastU8_Saturate(v) == IF v > 255 THEN 255 ELSE v

\* the u8 value parameter of i2c_smbus_write_byte_data
CastU8(v) == v % 256

RECURSIVE NatDigits(_)
NatDigits(n) ==
    IF n < 10 THEN <<DigitChars[n + 1]>>
    ELSE Append(NatDigits(n \div 10), DigitChars[(n % 10) + 1])

\* sprintf(buf, "%d", value): the newline left out
FormatInt_NoNewline(v) ==
    (IF v < 0 THEN <<"-">> ELSE <<>>) \o NatDigits(IF v < 0 THEN -v ELSE v)

\* sprintf(buf, "%d\n", value): the text written
FormatInt(v) ==
    (IF v < 0 THEN <<"-">> ELSE <<>>) \o NatDigits(IF v < 0 THEN -v ELSE v) \o <<"\n">>

(* ------------------------------------------------------------------ *)
(* chip_i2c_detect                                                      *)
(* ------------------------------------------------------------------ *)
\* chip_i2c_detect accepting every address of normal_i2c (0x20 as well)
chip_i2c_detect_AnyScanned(funcs, address, type) ==
    IF I2C_FUNC_SMBUS_BYTE_DATA \notin funcs
        THEN [ret |-> -ENODEV, type |-> type]
    ELSE IF \E i \in 1..Len(normal_i2c) : normal_i2c[i] = address
        THEN [ret |-> 0, type |-> DriverName]
    ELSE [ret |-> -ENODEV, type |-> type]

\* chip_i2c_detect(client, info) for an adapter with functionality bits
\* funcs, candidate address address and info->type holding type on entry:
\* [ret |-> 0 or -ENODEV, type |-> info->type on return]
chip_i2c_detect(funcs, address, type) ==
    IF I2C_FUNC_SMBUS_BYTE_DATA \notin funcs
        THEN [ret |-> -ENODEV, type |-> type]
    ELSE IF address = ChipAddress
        THEN [ret |-> 0, type |-> DriverName]
    ELSE [ret |-> -ENODEV, type |-> type]

(* ------------------------------------------------------------------ *)
(* State                                                                *)
(* ------------------------------------------------------------------ *)
Host == "host"
Callers == {"c1", "c2"}
Threads == {Host} \cup Callers
NoOne == "none"

\* the results i2c_smbus_*_byte_data can fail with
TransportErrors == {-EIO, -ETIMEDOUT}
\* the levels the dip switches on PORTB can be read at
SwitchValues == {0, 7, 255}

T_42 == <<"4", "2">>
T_42nl == <<"4", "2", "\n">>
T_minus1 == <<"-", "1">>
T_300 == <<"3", "0", "0">>
T_intmin == <<"-">> \o INT_MIN_Digits
T_empty == <<>>
T_word == <<"n", "o", "t">>
T_4x == <<"4", "x">>
T_toobig == INT_MIN_Digits
\* the texts user space writes to chip_led
Texts == {T_42, T_42nl, T_minus1, T_300, T_intmin,
          T_empty, T_word, T_4x, T_toobig}

AttrNames == {"chip_led", "chip_switch"}

VARIABLES
    pc,           \* [Threads -> position in the code]
    site,         \* [Threads -> the function the thread runs chip_*_value for]
    buf,          \* [Callers -> the text handed to set_chip_led]
    reg,          \* [Threads -> the reg argument of chip_*_value]
    value,        \* [Threads -> the u16 value argument of chip_write_value]
    val,          \* [Threads -> chip_read_value's val / chip_write_value's ret]
    rc,           \* [Threads -> what probe, remove or the handler returned
                  \* (read once pc says the function has returned)]
    out,          \* [Callers -> the text get_chip_switch wrote to buf]
    ntx,          \* [Threads -> transfers issued by the running call]
    update_lock,  \* the owner of data->update_lock, or NoOne
    data,         \* struct chip_data and whether it is allocated
    attr,         \* [AttrNames -> "absent" | "active" | "removing"]
    chip,         \* the MCP23017's registers
    log,          \* the transfers made since the last probe began, as the
                  \* bus saw them: [op, reg, value written (0 for a read),
                  \* by |-> the function that asked]
    binds,        \* probe calls made
    calls,        \* attribute calls started
    det           \* chip_i2c_detect's candidate, board info and result

vars == <<pc, site, buf, reg, value, val, rc, out, ntx,
          update_lock, data, attr, chip, log, binds, calls, det>>

NoData == [alloc |-> "none", kind |-> 0, led_last_updated |-> 0,
           switch_last_read |-> 0]

NoDetect == [funcs |-> {}, addr |-> 0, type |-> "", called |-> FALSE, ret |-> 0]

\* the threads inside i2c_smbus_read_byte_data / i2c_smbus_write_byte_data
InFlight == {t \in Threads : pc[t] \in {"r_wait", "w_wait"}}

\* DEVICE_ATTR(chip_led, .., NULL, set_chip_led) and
\* DEVICE_ATTR(chip_switch, .., get_chip_switch, NULL)
Handler(a) == IF a = "chip_led" THEN "set_chip_led" ELSE "get_chip_switch"

\* the callers inside the show/store method of attribute a
Active(a) == {t \in Callers : pc[t] # "idle" /\ site[t] = Handler(a)}

InitCore ==
    /\ pc = [t \in Threads |-> IF t = Host THEN "unbound" ELSE "idle"]
    /\ site = [t \in Threads |-> NoOne]
    /\ buf = [t \in Callers |-> <<>>]
    /\ reg = [t \in Threads |-> 0]
    /\ value = [t \in Threads |-> 0]
    /\ val = [t \in Threads |-> 0]
    /\ rc = [t \in Threads |-> 0]
    /\ out = [t \in Callers |-> <<>>]
    /\ ntx = [t \in Threads |-> 0]
    /\ update_lock = NoOne
    /\ data = NoData
    /\ attr = [a \in AttrNames |-> "absent"]
    /\ chip = [r \in {REG_CHIP_DIR_PORTA, REG_CHIP_DIR_PORTB} |-> DirReset]
                @@ (REG_CHIP_PORTA_LOUT :> 0)
    /\ log = <<>>
    /\ binds = 0
    /\ calls = 0

\* the module is loaded, no device is bound, the chip is in its reset state
Init ==
    /\ InitCore
    /\ det = NoDetect

\* the functionality bits an adapter can report
AdapterFuncs == {I2C_FUNC_SMBUS_BYTE_DATA, "i2c", "smbus_quick"}

\* bus enumeration offers chip_i2c_detect one candidate: an adapter, an
\* address and a board-info record
DetectInit ==
    /\ InitCore
    /\ \E f \in SUBSET AdapterFuncs, a \in 0..MaxAddr, ty \in {"", "stale"} :
        det = [funcs |-> f, addr |-> a, type |-> ty, called |-> FALSE,
               ret |-> 0]

\* chip_i2c_detect runs on the candidate
Detect ==
    /\ ~det.called
    /\ LET r == chip_i2c_detect(det.funcs, det.addr, det.type) IN
        det' = [det EXCEPT !.called = TRUE, !.ret = r.ret, !.type = r.type]
    /\ UNCHANGED <<pc, site, buf, reg, value, val, rc, out, ntx,
                   update_lock, data, attr, chip, log, binds, calls>>

\* the addresses the i2c core scans for this driver
ScannedAddresses == {normal_i2c[i] : i \in 1..Len(normal_i2c)}

\* a chip_i2c_detect that identifies the chip by reading a register of it
DetectAny_Probing ==
    /\ calls < MaxCalls
    /\ calls' = calls + 1
    /\ \E f \in {{}, {I2C_FUNC_SMBUS_BYTE_DATA}}, a \in ScannedAddresses :
        LET r == chip_i2c_detect(f, a, det.type) IN
        det' = [funcs |-> f, addr |-> a, type |-> r.type, called |-> TRUE,
                ret |-> r.ret]
    /\ log' = Append(log, [op |-> "read", reg |-> REG_CHIP_DIR_PORTA,
                           value |-> 0, by |-> "detect"])
    /\ UNCHANGED <<pc, site, buf, reg, value, val, rc, out, ntx,
                   update_lock, data, attr, chip, binds>>

\* the i2c core calls chip_i2c_detect on a scanned address of some adapter,
\* at any moment of the driver's life and any number of times; the board-info
\* record holds on entry what the call before left in it. calls counts the
\* operations started from outside and only bounds the exploration.
DetectAny ==
    /\ calls < MaxCalls
    /\ calls' = calls + 1
    /\ \E f \in {{}, {I2C_FUNC_SMBUS_BYTE_DATA}}, a \in ScannedAddresses :
        LET r == chip_i2c_detect(f, a, det.type) IN
        det' = [funcs |-> f, addr |-> a, type |-> r.type, called |-> TRUE,
                ret |-> r.ret]
    /\ UNCHANGED <<pc, site, buf, reg, value, val, rc, out, ntx,
                   update_lock, data, attr, chip, log, binds>>

(* ------------------------------------------------------------------ *)
(* chip_write_value / chip_read_value                                   *)
(* ------------------------------------------------------------------ *)
\* chip_write_value going on without waiting for the mutex
WriteLock_NoWait(t) ==
    /\ pc[t] = "w_lock"
    /\ update_lock' = t
    /\ pc' = [pc EXCEPT ![t] = "w_xfer"]
    /\ UNCHANGED <<site, buf, reg, value, val, rc, out, ntx,
                   data, attr, chip, log, binds, calls, det>>

\* mutex_lock(&data->update_lock) of chip_write_value
WriteLock(t) ==
    /\ pc[t] = "w_lock"
    /\ update_lock = NoOne
    /\ update_lock' = t
    /\ pc' = [pc EXCEPT ![t] = "w_xfer"]
    /\ UNCHANGED <<site, buf, reg, value, val, rc, out, ntx,
                   data, attr, chip, log, binds, calls, det>>

\* i2c_smbus_write_byte_data(client, reg, value) is entered
WriteXferBegin(t) ==
    /\ pc[t] = "w_xfer"
    /\ pc' = [pc EXCEPT ![t] = "w_wait"]
    /\ ntx' = [ntx EXCEPT ![t] = @ + 1]
    /\ UNCHANGED <<site, buf, reg, value, val, rc, out,
                   update_lock, data, attr, chip, log, binds, calls, det>>

\* i2c_smbus_write_byte_data returns: 0 with the register written, or an
\* error with the register as it was
WriteXferEnd(t) ==
    /\ pc[t] = "w_wait"
    /\ \E r \in {0} \cup TransportErrors :
        /\ val' = [val EXCEPT ![t] = r]
        /\ chip' = IF r = 0 THEN [chip EXCEPT ![reg[t]] = CastU8(value[t])]
                   ELSE chip
        /\ log' = Append(log, [op |-> "write", reg |-> reg[t],
                               value |-> CastU8(value[t]), by |-> site[t]])
    /\ pc' = [pc EXCEPT ![t] = "w_unlock"]
    /\ UNCHANGED <<site, buf, reg, value, rc, out, ntx,
                   update_lock, data, attr, binds, calls, det>>

\* chip_write_value returning early on a transfer error, the mutex still held
WriteUnlock_LeakOnError(t) ==
    /\ pc[t] = "w_unlock"
    /\ update_lock' = IF val[t] < 0 THEN update_lock ELSE NoOne
    /\ pc' = [pc EXCEPT ![t] = "w_ret"]
    /\ UNCHANGED <<site, buf, reg, value, val, rc, out, ntx,
                   data, attr, chip, log, binds, calls, det>>

\* mutex_unlock(&data->update_lock) of chip_write_value; return ret
WriteUnlock(t) ==
    /\ pc[t] = "w_unlock"
    /\ update_lock' = NoOne
    /\ pc' = [pc EXCEPT ![t] = "w_ret"]
    /\ UNCHANGED <<site, buf, reg, value, val, rc, out, ntx,
                   data, attr, chip, log, binds, calls, det>>

\* mutex_lock(&data->update_lock) of chip_read_value
ReadLock(t) ==
    /\ pc[t] = "r_lock"
    /\ update_lock = NoOne
    /\ update_lock' = t
    /\ pc' = [pc EXCEPT ![t] = "r_xfer"]
    /\ UNCHANGED <<site, buf, reg, value, val, rc, out, ntx,
                   data, attr, chip, log, binds, calls, det>>

\* i2c_smbus_read_byte_data(client, reg) is entered
ReadXferBegin(t) ==
    /\ pc[t] = "r_xfer"
    /\ pc' = [pc EXCEPT ![t] = "r_wait"]
    /\ ntx' = [ntx EXCEPT ![t] = @ + 1]
    /\ UNCHANGED <<site, buf, reg, value, val, rc, out,
                   update_lock, data, attr, chip, log, binds, calls, det>>

\* chip_read_value trying the transfer again when it has failed
ReadXferEnd_Retry(t) ==
    /\ pc[t] = "r_wait"
    /\ \E r \in SwitchValues \cup TransportErrors :
        /\ val' = [val EXCEPT ![t] = r]
        /\ log' = Append(log, [op |-> "read", reg |-> reg[t],
                               value |-> 0, by |-> site[t]])
        /\ pc' = [pc EXCEPT ![t] = IF r < 0 /\ ntx[t] < 2 THEN "r_xfer"
                                   ELSE "r_unlock"]
    /\ UNCHANGED <<site, buf, reg, value, rc, out, ntx,
                   update_lock, data, attr, chip, binds, calls, det>>

\* i2c_smbus_read_byte_data returns the byte read (the switches' level at
\* that moment) or an error
ReadXferEnd(t) ==
    /\ pc[t] = "r_wait"
    /\ \E r \in SwitchValues \cup TransportErrors :
        /\ val' = [val EXCEPT ![t] = r]
        /\ log' = Append(log, [op |-> "read", reg |-> reg[t],
                               value |-> 0, by |-> site[t]])
    /\ pc' = [pc EXCEPT ![t] = "r_unlock"]
    /\ UNCHANGED <<site, buf, reg, value, rc, out, ntx,
                   update_lock, data, attr, chip, binds, calls, det>>

\* chip_read_value returning a failed read's error without mutex_unlock
ReadUnlock_LeakOnError(t) ==
    /\ pc[t] = "r_unlock"
    /\ update_lock' = IF val[t] < 0 THEN update_lock ELSE NoOne
    /\ pc' = [pc EXCEPT ![t] = "r_ret"]
    /\ UNCHANGED <<site, buf, reg, value, val, rc, out, ntx,
                   data, attr, chip, log, binds, calls, det>>

\* mutex_unlock(&data->update_lock) of chip_read_value; return val
ReadUnlock(t) ==
    /\ pc[t] = "r_unlock"
    /\ update_lock' = NoOne
    /\ pc' = [pc EXCEPT ![t] = "r_ret"]
    /\ UNCHANGED <<site, buf, reg, value, val, rc, out, ntx,
                   data, attr, chip, log, binds, calls, det>>

(* ------------------------------------------------------------------ *)
(* chip_i2c_probe, chip_init_client                                     *)
(* ------------------------------------------------------------------ *)
\* chip_i2c_probe creating the chip_led file before it initializes the chip
ProbeAlloc_CreateFirst ==
    /\ pc[Host] = "unbound"
    /\ binds < MaxBinds
    /\ binds' = binds + 1
    /\ \E ok \in BOOLEAN :
        IF ok
        THEN /\ data' = [alloc |-> "live", kind |-> DriverData,
                         led_last_updated |-> 0, switch_last_read |-> 0]
             /\ update_lock' = NoOne
             /\ attr' = [attr EXCEPT !["chip_led"] = "active"]
             /\ pc' = [pc EXCEPT ![Host] = "w_lock"]
             /\ site' = [site EXCEPT ![Host] = "init_porta"]
             /\ reg' = [reg EXCEPT ![Host] = REG_CHIP_DIR_PORTA]
             /\ value' = [value EXCEPT ![Host] = 0]
             /\ rc' = [rc EXCEPT ![Host] = 0]
             /\ log' = <<>>
        ELSE /\ rc' = [rc EXCEPT ![Host] = -ENOMEM]
             /\ UNCHANGED <<data, update_lock, attr, pc, site, reg, value, log>>
    /\ ntx' = [ntx EXCEPT ![Host] = 0]
    /\ UNCHANGED <<buf, val, out, chip, calls, det>>

\* chip_i2c_probe without the if (!data) check: it goes on to
\* chip_init_client when devm_kzalloc has failed
ProbeAlloc_NoNullCheck ==
    /\ pc[Host] = "unbound"
    /\ binds < MaxBinds
    /\ binds' = binds + 1
    /\ \E ok \in BOOLEAN :
        /\ data' = IF ok THEN [alloc |-> "live", kind |-> DriverData,
                               led_last_updated |-> 0, switch_last_read |-> 0]
                   ELSE data
        /\ update_lock' = NoOne
        /\ pc' = [pc EXCEPT ![Host] = "w_lock"]
        /\ site' = [site EXCEPT ![Host] = "init_porta"]
        /\ reg' = [reg EXCEPT ![Host] = REG_CHIP_DIR_PORTA]
        /\ value' = [value EXCEPT ![Host] = 0]
        /\ rc' = [rc EXCEPT ![Host] = 0]
        /\ log' = <<>>
    /\ ntx' = [ntx EXCEPT ![Host] = 0]
    /\ UNCHANGED <<buf, val, out, attr, chip, calls, det>>

\* chip_i2c_probe up to chip_init_client's first chip_write_value:
\* devm_kzalloc fails (return -ENOMEM) or gives zeroed chip_data; then
\* i2c_set_clientdata, mutex_init, data->kind = id->driver_data
ProbeAlloc ==
    /\ pc[Host] = "unbound"
    /\ binds < MaxBinds
    /\ binds' = binds + 1
    /\ \E ok \in BOOLEAN :
        IF ok
        THEN /\ data' = [alloc |-> "live", kind |-> DriverData,
                         led_last_updated |-> 0, switch_last_read |-> 0]
             /\ update_lock' = NoOne
             /\ pc' = [pc EXCEPT ![Host] = "w_lock"]
             /\ site' = [site EXCEPT ![Host] = "init_porta"]
             /\ reg' = [reg EXCEPT ![Host] = REG_CHIP_DIR_PORTA]
             /\ value' = [value EXCEPT ![Host] = 0]
             /\ rc' = [rc EXCEPT ![Host] = 0]
             /\ log' = <<>>
        ELSE /\ rc' = [rc EXCEPT ![Host] = -ENOMEM]
             /\ UNCHANGED <<data, update_lock, pc, site, reg, value, log>>
    /\ ntx' = [ntx EXCEPT ![Host] = 0]
    /\ UNCHANGED <<buf, val, out, attr, chip, calls, det>>

\* chip_init_client: the first chip_write_value has returned (its result is
\* dropped); chip_write_value(client, REG_CHIP_DIR_PORTB, 0xFF) is called
InitClientPortB ==
    /\ pc[Host] = "w_ret"
    /\ site[Host] = "init_porta"
    /\ pc' = [pc EXCEPT ![Host] = "w_lock"]
    /\ site' = [site EXCEPT ![Host] = "init_portb"]
    /\ reg' = [reg EXCEPT ![Host] = REG_CHIP_DIR_PORTB]
    /\ value' = [value EXCEPT ![Host] = 255]
    /\ UNCHANGED <<buf, val, rc, out, ntx, update_lock, data, attr, chip,
                   log, binds, calls, det>>

\* chip_init_client returns (the second result is dropped too);
\* device_create_file(dev, &dev_attr_chip_led)
ProbeCreateLed ==
    /\ pc[Host] = "w_ret"
    /\ site[Host] = "init_portb"
    /\ attr' = [attr EXCEPT !["chip_led"] = "active"]
    /\ pc' = [pc EXCEPT ![Host] = "create_switch"]
    /\ site' = [site EXCEPT ![Host] = NoOne]
    /\ reg' = [reg EXCEPT ![Host] = 0]
    /\ value' = [value EXCEPT ![Host] = 0]
    /\ val' = [val EXCEPT ![Host] = 0]
    /\ UNCHANGED <<buf, rc, out, ntx, update_lock, data,
                   chip, log, binds, calls, det>>

\* device_create_file(dev, &dev_attr_chip_switch); return 0
ProbeCreateSwitch ==
    /\ pc[Host] = "create_switch"
    /\ attr' = [attr EXCEPT !["chip_switch"] = "active"]
    /\ rc' = [rc EXCEPT ![Host] = 0]
    /\ pc' = [pc EXCEPT ![Host] = "bound"]
    /\ UNCHANGED <<site, buf, reg, value, val, out, ntx, update_lock, data,
                   chip, log, binds, calls, det>>

(* ------------------------------------------------------------------ *)
(* chip_i2c_remove                                                      *)
(* ------------------------------------------------------------------ *)
\* chip_i2c_remove freeing chip_data itself before it removes the files
RemoveLedBegin_FreeFirst ==
    /\ pc[Host] = "bound"
    /\ data' = [data EXCEPT !.alloc = "freed"]
    /\ attr' = [attr EXCEPT !["chip_led"] = "removing"]
    /\ pc' = [pc EXCEPT ![Host] = "rm_led"]
    /\ rc' = [rc EXCEPT ![Host] = 0]
    /\ UNCHANGED <<site, buf, reg, value, val, out, ntx, update_lock,
                   chip, log, binds, calls, det>>

\* device_remove_file(dev, &dev_attr_chip_led) is called: the file takes no
\* new callers from here on
RemoveLedBegin ==
    /\ pc[Host] = "bound"
    /\ attr' = [attr EXCEPT !["chip_led"] = "removing"]
    /\ pc' = [pc EXCEPT ![Host] = "rm_led"]
    /\ rc' = [rc EXCEPT ![Host] = 0]
    /\ UNCHANGED <<site, buf, reg, value, val, out, ntx, update_lock, data,
                   chip, log, binds, calls, det>>

\* whether device_remove_file may return for attribute a: it waits for the
\* callers inside a's method to leave
Drained(a) == Active(a) = {}

\* device_remove_file(chip_led) returns;
\* device_remove_file(dev, &dev_attr_chip_switch) is called
RemoveLedDone ==
    /\ pc[Host] = "rm_led"
    /\ Drained("chip_led")
    /\ attr' = [attr EXCEPT !["chip_led"] = "absent",
                            !["chip_switch"] = "removing"]
    /\ pc' = [pc EXCEPT ![Host] = "rm_switch"]
    /\ UNCHANGED <<site, buf, reg, value, val, rc, out, ntx, update_lock,
                   data, chip, log, binds, calls, det>>

\* device_remove_file(chip_switch) returns; return 0
RemoveSwitchDone ==
    /\ pc[Host] = "rm_switch"
    /\ Drained("chip_switch")
    /\ attr' = [attr EXCEPT !["chip_switch"] = "absent"]
    /\ rc' = [rc EXCEPT ![Host] = 0]
    /\ pc' = [pc EXCEPT ![Host] = "removed"]
    /\ UNCHANGED <<site, buf, reg, value, val, out, ntx, update_lock, data,
                   chip, log, binds, calls, det>>

\* after remove has returned the driver core releases the device's managed
\* resources: the devm_kzalloc'ed chip_data is freed
DevresRelease ==
    /\ pc[Host] = "removed"
    /\ data' = [data EXCEPT !.alloc = "freed"]
    /\ pc' = [pc EXCEPT ![Host] = "unbound"]
    /\ UNCHANGED <<site, buf, reg, value, val, rc, out, ntx, update_lock,
                   attr, chip, log, binds, calls, det>>

(* ------------------------------------------------------------------ *)
(* set_chip_led, get_chip_switch                                        *)
(* ------------------------------------------------------------------ *)
\* user space writes text to the chip_led file: set_chip_led is entered
SetChipLedBegin(t, text) ==
    /\ pc[t] = "idle"
    /\ attr["chip_led"] = "active"
    /\ calls < MaxCalls
    /\ calls' = calls + 1
    /\ pc' = [pc EXCEPT ![t] = "led_parse"]
    /\ site' = [site EXCEPT ![t] = "set_chip_led"]
    /\ buf' = [buf EXCEPT ![t] = text]
    /\ rc' = [rc EXCEPT ![t] = 0]
    /\ UNCHANGED <<reg, value, val, out, ntx, update_lock, data, attr,
                   chip, log, binds, det>>

\* set_chip_led writing the latch of the other port (REG_CHIP_PORTB_LOUT,
\* 0x15) instead of PORTA's
SetChipLedParse_WrongReg(t) ==
    /\ pc[t] = "led_parse"
    /\ LET p == kstrtoint(buf[t]) IN
        IF p.err < 0
        THEN /\ rc' = [rc EXCEPT ![t] = p.err]
             /\ pc' = [pc EXCEPT ![t] = "done"]
             /\ UNCHANGED <<reg, value>>
        ELSE /\ reg' = [reg EXCEPT ![t] = REG_CHIP_PORTA_LOUT + 1]
             /\ value' = [value EXCEPT ![t] = CastU16(p.value)]
             /\ pc' = [pc EXCEPT ![t] = "w_lock"]
             /\ UNCHANGED rc
    /\ UNCHANGED <<site, buf, val, out, ntx, update_lock, data, attr, chip,
                   log, binds, calls, det>>

\* set_chip_led going on to the write without looking at kstrtoint's result
SetChipLedParse_NoErrCheck(t) ==
    /\ pc[t] = "led_parse"
    /\ reg' = [reg EXCEPT ![t] = REG_CHIP_PORTA_LOUT]
    /\ value' = [value EXCEPT ![t] = CastU16(kstrtoint(buf[t]).value)]
    /\ pc' = [pc EXCEPT ![t] = "w_lock"]
    /\ UNCHANGED <<site, buf, val, rc, out, ntx, update_lock, data, attr,
                   chip, log, binds, calls, det>>

\* err = kstrtoint(buf, 10, &value); if (err < 0) return err; else
\* chip_write_value(client, REG_CHIP_PORTA_LOUT, (u16) value) is called
SetChipLedParse(t) ==
    /\ pc[t] = "led_parse"
    /\ LET p == kstrtoint(buf[t]) IN
        IF p.err < 0
        THEN /\ rc' = [rc EXCEPT ![t] = p.err]
             /\ pc' = [pc EXCEPT ![t] = "done"]
             /\ UNCHANGED <<reg, value>>
        ELSE /\ reg' = [reg EXCEPT ![t] = REG_CHIP_PORTA_LOUT]
             /\ value' = [value EXCEPT ![t] = CastU16(p.value)]
             /\ pc' = [pc EXCEPT ![t] = "w_lock"]
             /\ UNCHANGED rc
    /\ UNCHANGED <<site, buf, val, out, ntx, update_lock, data, attr, chip,
                   log, binds, calls, det>>

\* chip_write_value has returned (its result is dropped); return count
SetChipLedReturn(t) ==
    /\ pc[t] = "w_ret"
    /\ site[t] = "set_chip_led"
    /\ rc' = [rc EXCEPT ![t] = Len(buf[t])]
    /\ pc' = [pc EXCEPT ![t] = "done"]
    /\ UNCHANGED <<site, buf, reg, value, val, out, ntx, update_lock, data,
                   attr, chip, log, binds, calls, det>>

\* get_chip_switch reading the output latch of port A, not the input of port B
GetChipSwitchBegin_ReadsLatch(t) ==
    /\ pc[t] = "idle"
    /\ attr["chip_switch"] = "active"
    /\ calls < MaxCalls
    /\ calls' = calls + 1
    /\ pc' = [pc EXCEPT ![t] = "r_lock"]
    /\ site' = [site EXCEPT ![t] = "get_chip_switch"]
    /\ reg' = [reg EXCEPT ![t] = REG_CHIP_PORTA_LOUT]
    /\ rc' = [rc EXCEPT ![t] = 0]
    /\ UNCHANGED <<buf, value, val, out, ntx, update_lock, data, attr,
                   chip, log, binds, det>>

\* user space reads the chip_switch file: get_chip_switch is entered and
\* calls chip_read_value(client, REG_CHIP_PORTB_LIN)
GetChipSwitchBegin(t) ==
    /\ pc[t] = "idle"
    /\ attr["chip_switch"] = "active"
    /\ calls < MaxCalls
    /\ calls' = calls + 1
    /\ pc' = [pc EXCEPT ![t] = "r_lock"]
    /\ site' = [site EXCEPT ![t] = "get_chip_switch"]
    /\ reg' = [reg EXCEPT ![t] = REG_CHIP_PORTB_LIN]
    /\ rc' = [rc EXCEPT ![t] = 0]
    /\ UNCHANGED <<buf, value, val, out, ntx, update_lock, data, attr,
                   chip, log, binds, det>>

\* return sprintf(buf, "%d\n", value)
GetChipSwitchReturn(t) ==
    /\ pc[t] = "r_ret"
    /\ site[t] = "get_chip_switch"
    /\ out' = [out EXCEPT ![t] = FormatInt(val[t])]
    /\ rc' = [rc EXCEPT ![t] = Len(FormatInt(val[t]))]
    /\ pc' = [pc EXCEPT ![t] = "done"]
    /\ UNCHANGED <<site, buf, reg, value, val, ntx, update_lock, data,
                   attr, chip, log, binds, calls, det>>

\* the handler's result has gone back to user space; the caller leaves the
\* attribute's method
AttrReturn(t) ==
    /\ pc[t] = "done"
    /\ pc' = [pc EXCEPT ![t] = "idle"]
    /\ site' = [site EXCEPT ![t] = NoOne]
    /\ buf' = [buf EXCEPT ![t] = <<>>]
    /\ out' = [out EXCEPT ![t] = <<>>]
    /\ reg' = [reg EXCEPT ![t] = 0]
    /\ value' = [value EXCEPT ![t] = 0]
    /\ val' = [val EXCEPT ![t] = 0]
    /\ rc' = [rc EXCEPT ![t] = 0]
    /\ ntx' = [ntx EXCEPT ![t] = 0]
    /\ UNCHANGED <<update_lock, data, attr, chip, log, binds, calls, det>>

(* ------------------------------------------------------------------ *)
(* Specifications                                                       *)
(* ------------------------------------------------------------------ *)
Next ==
    \/ ProbeAlloc
    \/ InitClientPortB
    \/ ProbeCreateLed
    \/ ProbeCreateSwitch
    \/ RemoveLedBegin
    \/ RemoveLedDone
    \/ RemoveSwitchDone
    \/ DevresRelease
    \/ \E t \in Threads : WriteLock(t)
    \/ \E t \in Threads : WriteXferBegin(t)
    \/ \E t \in Threads : WriteXferEnd(t)
    \/ \E t \in Threads : WriteUnlock(t)
    \/ \E t \in Callers : ReadLock(t)
    \/ \E t \in Callers : ReadXferBegin(t)
    \/ \E t \in Callers : ReadXferEnd(t)
    \/ \E t \in Callers : ReadUnlock(t)
    \/ \E t \in Callers, text \in Texts : SetChipLedBegin(t, text)
    \/ \E t \in Callers : SetChipLedParse(t)
    \/ \E t \in Callers : SetChipLedReturn(t)
    \/ \E t \in Callers : GetChipSwitchBegin(t)
    \/ \E t \in Callers : GetChipSwitchReturn(t)
    \/ \E t \in Callers : AttrReturn(t)

Spec == Init /\ [][Next]_vars

\* chip_i2c_detect applied to every candidate of bus enumeration
DetectNext == Detect

SpecDetect == DetectInit /\ [][DetectNext]_vars

\* the steps of thread t inside chip_write_value / chip_read_value once it
\* has the mutex: the transfer and mutex_unlock
TransactionStep(t) ==
    \/ WriteXferBegin(t)
    \/ WriteXferEnd(t)
    \/ WriteUnlock(t)
    \/ ReadXferBegin(t)
    \/ ReadXferEnd(t)
    \/ ReadUnlock(t)

\* mutex_lock returning to thread t
LockStep(t) == WriteLock(t) \/ ReadLock(t)

\* every transfer completes or fails and a running thread goes on to its
\* mutex_unlock (weak fairness); a thread waiting in mutex_lock gets the
\* mutex if it is free again and again (strong fairness)
Fairness ==
    \A t \in Threads :
        /\ WF_vars(TransactionStep(t))
        /\ SF_vars(LockStep(t))

\* the texts written to chip_led in the fair specification: one that
\* kstrtoint accepts and one that it rejects (what the text is has no part
\* in how a transaction proceeds)
FairTexts == {T_300, T_word}

\* the driver's life with those texts
NextFair ==
    \/ ProbeAlloc
    \/ InitClientPortB
    \/ ProbeCreateLed
    \/ ProbeCreateSwitch
    \/ RemoveLedBegin
    \/ RemoveLedDone
    \/ RemoveSwitchDone
    \/ DevresRelease
    \/ \E t \in Threads : LockStep(t)
    \/ \E t \in Threads : TransactionStep(t)
    \/ \E t \in Callers, text \in FairTexts : SetChipLedBegin(t, text)
    \/ \E t \in Callers : SetChipLedParse(t)
    \/ \E t \in Callers : SetChipLedReturn(t)
    \/ \E t \in Callers : GetChipSwitchBegin(t)
    \/ \E t \in Callers : GetChipSwitchReturn(t)
    \/ \E t \in Callers : AttrReturn(t)

SpecFair == Init /\ [][NextFair]_vars /\ Fairness

\* the driver's life with calls of chip_i2c_detect interleaved
NextAll ==
    \/ Next
    \/ DetectAny

SpecAll == Init /\ [][NextAll]_vars

(* ------------------------------------------------------------------ *)
(* Properties                                                           *)
(* ------------------------------------------------------------------ *)
\* the threads between mutex_lock's return and mutex_unlock
InCritical == {t \in Threads :
                 pc[t] \in {"w_xfer", "w_wait", "w_unlock",
                            "r_xfer", "r_wait", "r_unlock"}}

\* the init writes of the running or last probe
InitSites == {"init_porta", "init_portb"}

\* C1: at most one SMBus transfer of the bound chip is in progress at any
\* time, and a thread inside a transfer (or about to start one) owns
\* update_lock.
C1_OneTransferUnderLock ==
    /\ Cardinality(InFlight) <= 1
    /\ \A t \in InCritical : update_lock = t

\* C1 witness: a set_chip_led transfer is in progress while a
\* get_chip_switch caller waits for the mutex.
C1_Witness ==
    \E t, u \in Callers :
        /\ t # u
        /\ pc[t] = "w_wait" /\ site[t] = "set_chip_led"
        /\ pc[u] = "r_lock" /\ site[u] = "get_chip_switch"

\* C2 (as claimed): once probe has returned 0, register 0x00 holds 0x00 and
\* register 0x01 holds 0xFF, and the bind's first two transfers are the
\* write to 0x00 and then the write to 0x01.
C2_BoundMeansDirectionsSet ==
    (pc[Host] = "bound" /\ rc[Host] = 0) =>
        /\ chip[0] = 0
        /\ chip[1] = 255
        /\ Len(log) >= 2
        /\ log[1].op = "write" /\ log[1].reg = 0
        /\ log[2].op = "write" /\ log[2].reg = 1

\* C3 (as claimed): when an init write has returned an error, probe's next
\* step is to return that error, with no attribute registered.
C3_InitErrorAbortsBind ==
    [][(/\ pc[Host] = "w_ret"
        /\ site[Host] \in InitSites
        /\ val[Host] < 0
        /\ pc'[Host] # pc[Host])
       => (/\ pc'[Host] = "unbound"
           /\ rc'[Host] < 0
           /\ \A a \in AttrNames : attr'[a] = "absent")]_vars

\* C4: chip_i2c_detect returns 0 with the name "chip_i2c" in the board info
\* exactly when the adapter has SMBus byte-data and the address is 0x21;
\* otherwise it returns -ENODEV (-19).
C4_DetectIffCapableAnd0x21 ==
    det.called =>
        LET hit == "smbus_byte_data" \in det.funcs /\ det.addr = 33 IN
        /\ hit => (det.ret = 0 /\ det.type = "chip_i2c")
        /\ ~hit => det.ret = -19

\* C4 witness: detect has run on the scanned address 0x20 of a capable
\* adapter.
C4_Witness ==
    /\ det.called
    /\ det.addr = 32
    /\ "smbus_byte_data" \in det.funcs
    /\ det.ret = -19

\* the decimal signed integers among Texts, by hand
ParsedInt ==
    (T_42 :> 42) @@ (T_42nl :> 42) @@ (T_minus1 :> -1) @@ (T_300 :> 300)
    @@ (T_intmin :> (-2147483647 - 1))

Parses(text) == text \in DOMAIN ParsedInt

Last(q) == q[Len(q)]

LedCallers == {t \in Callers : site[t] = "set_chip_led"}
SwitchCallers == {t \in Callers : site[t] = "get_chip_switch"}

\* C5 (as claimed): a set_chip_led call on a text that parses makes exactly
\* one transfer, a write to register 0x14 (20) carrying the parsed value
\* itself.
C5_WritesParsedValue ==
    \A t \in LedCallers :
        Parses(buf[t]) =>
            /\ pc[t] = "led_parse" => ntx[t] = 0
            /\ pc[t] = "w_unlock" =>
                Last(log) = [op |-> "write", reg |-> 20,
                             value |-> ParsedInt[buf[t]],
                             by |-> "set_chip_led"]
            /\ pc[t] = "done" => ntx[t] = 1

\* C5 (amended): a set_chip_led call on a text that parses makes exactly one
\* transfer, a write to register 0x14 (20) carrying the parsed value reduced
\* modulo 256; it reads nothing and writes no other register.
C5_WritesParsedValueMod256 ==
    \A t \in LedCallers :
        Parses(buf[t]) =>
            /\ pc[t] = "led_parse" => ntx[t] = 0
            /\ pc[t] = "w_unlock" =>
                Last(log) = [op |-> "write", reg |-> 20,
                             value |-> ParsedInt[buf[t]] % 256,
                             by |-> "set_chip_led"]
            /\ pc[t] \in {"w_wait", "w_unlock", "w_ret", "done"} => ntx[t] = 1
            /\ pc[t] \notin {"r_lock", "r_xfer", "r_wait", "r_unlock", "r_ret"}

\* C5 witness: the write of the call set_chip_led("300") has just completed.
C5_Witness ==
    \E t \in LedCallers :
        /\ buf[t] = T_300
        /\ pc[t] = "w_unlock"
        /\ val[t] = 0
        /\ chip[20] = 44

\* C6: a set_chip_led call on a text that does not parse returns a negative
\* errno (-EINVAL or -ERANGE) in its one step, with no transfer made, the
\* mutex not taken, and chip registers, chip_data and the call log as before.
C6_BadTextTouchesNothing ==
    [][\A t \in Callers :
        (/\ pc[t] = "led_parse"
         /\ ~Parses(buf[t])
         /\ pc'[t] # pc[t])
        => (/\ pc'[t] = "done"
            /\ rc'[t] \in {-22, -34}
            /\ ntx'[t] = 0
            /\ update_lock' = update_lock
            /\ update_lock # t
            /\ chip' = chip
            /\ data' = data
            /\ log' = log)]_vars

\* C6 witness: set_chip_led("not") has returned -EINVAL without a transfer.
C6_Witness ==
    \E t \in LedCallers :
        /\ buf[t] = T_word
        /\ pc[t] = "done"
        /\ rc[t] = -22
        /\ ntx[t] = 0

\* C7 (as claimed): when the write of a set_chip_led call has failed,
\* set_chip_led returns the transport's error.
C7_WriteErrorReturned ==
    \A t \in LedCallers :
        (pc[t] = "done" /\ ntx[t] = 1 /\ val[t] < 0) => rc[t] = val[t]

\* the text is the decimal numeral of natural v, without sign or leading
\* zeros, followed by one newline
CanonicalDecimalLine(txt, v) ==
    /\ Len(txt) >= 2
    /\ txt[Len(txt)] = "\n"
    /\ LET body == SubSeq(txt, 1, Len(txt) - 1) IN
        /\ \A i \in 1..Len(body) : IsDigit(body[i])
        /\ Len(body) > 1 => body[1] # "0"
        /\ SignedValue(body, FALSE, 0) = v

\* C8: a get_chip_switch call whose read succeeded with value v made exactly
\* one transfer, a read of register 0x13 (19), and produced the canonical
\* decimal text of v followed by one newline (7 gives "7\n"); every call
\* makes its own transfer.
C8_ReadRendersDecimalLine ==
    \A t \in SwitchCallers :
        /\ pc[t] = "r_unlock" =>
            Last(log) = [op |-> "read", reg |-> 19, value |-> 0,
                         by |-> "get_chip_switch"]
        /\ pc[t] \in {"r_wait", "r_unlock", "r_ret", "done"} => ntx[t] = 1
        /\ (pc[t] = "done" /\ val[t] >= 0) =>
            /\ val[t] \in 0..255
            /\ CanonicalDecimalLine(out[t], val[t])
            /\ rc[t] = Len(out[t])
            /\ val[t] = 7 => out[t] = <<"7", "\n">>

\* C8 witness: a get_chip_switch call has read 255 and returned "255\n".
C8_Witness ==
    \E t \in SwitchCallers :
        /\ pc[t] = "done"
        /\ val[t] = 255
        /\ out[t] = <<"2", "5", "5", "\n">>

\* C9 (as claimed): when the read of a get_chip_switch call has failed,
\* get_chip_switch returns the transport's error and writes no text.
C9_ReadErrorReturned ==
    \A t \in SwitchCallers :
        (pc[t] = "done" /\ val[t] < 0) => (rc[t] = val[t] /\ out[t] = <<>>)

\* C10: chip_data is allocated whenever a thread is inside chip_read_value /
\* chip_write_value or owns update_lock; once remove has returned, and once
\* chip_data is freed, no caller is inside an attribute method.
C10_NoTransferOnFreedData ==
    /\ \A t \in Threads :
        (pc[t] \in {"w_lock", "r_lock", "w_ret", "r_ret"} \/ t \in InCritical)
            => data.alloc = "live"
    /\ update_lock # NoOne => data.alloc = "live"
    /\ (pc[Host] = "removed" \/ data.alloc = "freed") =>
        \A t \in Callers : pc[t] = "idle"

\* C10 witness: remove waits in device_remove_file while a transfer is in
\* progress.
C10_Witness ==
    /\ pc[Host] \in {"rm_led", "rm_switch"}
    /\ InFlight # {}


\* the transfers the thread's running function had made before its running
\* chip_*_value call: one for probe's second init write, none otherwise
TxBase(t) == IF t = Host /\ site[t] = "init_portb" THEN 1 ELSE 0

\* the positions at which a chip_read_value / chip_write_value call has
\* returned to its caller
Returned == {"w_ret", "r_ret"}

\* C11: a thread owns update_lock only between mutex_lock and mutex_unlock of
\* chip_read_value / chip_write_value, that span holds exactly one transfer,
\* and the mutex is released on every way out: the thread does not own it
\* once the call has returned (also after a transfer error), the mutex is free
\* between the two init writes, and a caller never owns it while
\* set_chip_led parses its text.
C11_LockSpansOneTransfer ==
    /\ \A t \in Threads :
        /\ update_lock = t => t \in InCritical
        /\ pc[t] \in {"w_xfer", "r_xfer"} => ntx[t] = TxBase(t)
        /\ pc[t] \in {"w_wait", "r_wait", "w_unlock", "r_unlock"}
            => ntx[t] = TxBase(t) + 1
        /\ pc[t] \in Returned \cup {"done", "idle", "led_parse"}
            => update_lock # t
    /\ (pc[Host] = "w_ret"
        \/ (pc[Host] = "w_lock" /\ site[Host] = "init_portb"))
        => update_lock = NoOne

\* C11 witness: a write whose transfer failed has returned and the mutex is
\* free.
C11_Witness ==
    \E t \in Callers :
        /\ pc[t] = "w_ret"
        /\ val[t] < 0
        /\ update_lock = NoOne

\* C12: a chip_read_value / chip_write_value call goes from its one transfer
\* straight to mutex_unlock and to its return, whatever the transfer's
\* result (no second transfer), and hands back that result as it is: 0 with
\* the register written or a negative errno with the register untouched for
\* a write, the byte read or a negative errno for a read.
C12_OneTransferResultUnchanged ==
    [][\A t \in Threads :
        /\ (pc[t] = "w_wait" /\ pc'[t] # "w_wait") =>
            /\ pc'[t] = "w_unlock"
            /\ ntx'[t] = ntx[t]
            /\ val'[t] \in {0, -5, -110}
            /\ val'[t] = 0 => chip'[reg[t]] = value[t] % 256
            /\ val'[t] < 0 => chip' = chip
        /\ (pc[t] = "r_wait" /\ pc'[t] # "r_wait") =>
            /\ pc'[t] = "r_unlock"
            /\ ntx'[t] = ntx[t]
            /\ val'[t] \in (0..255) \cup {-5, -110}
            /\ chip' = chip
        /\ (pc[t] \in {"w_unlock", "r_unlock"} /\ pc'[t] # pc[t]) =>
            /\ pc'[t] = (IF pc[t] = "w_unlock" THEN "w_ret" ELSE "r_ret")
            /\ val'[t] = val[t]
            /\ ntx'[t] = TxBase(t) + 1
            /\ log' = log]_vars

\* C12 witness: a read whose one transfer timed out has returned -ETIMEDOUT.
C12_Witness ==
    \E t \in Callers :
        /\ pc[t] = "r_ret"
        /\ val[t] = -110
        /\ ntx[t] = 1


\* C13 (as claimed): once a set_chip_led call's write has succeeded,
\* led_last_updated holds a time stamp, and once a get_chip_switch call's read
\* has succeeded, switch_last_read does (kzalloc leaves both 0, which no
\* stamp taken from jiffies after boot is).
C13_StampsFollowSuccess ==
    \A t \in Callers :
        /\ (site[t] = "set_chip_led" /\ pc[t] = "done" /\ ntx[t] = 1
            /\ val[t] = 0) => data.led_last_updated # 0
        /\ (site[t] = "get_chip_switch" /\ pc[t] = "done" /\ val[t] >= 0)
            => data.switch_last_read # 0

\* C14: in every bind the first two transfers are the write of 0x00 to
\* register 0x00 and the write of 0xFF to register 0x01, made by
\* chip_init_client and by nothing else later in that bind; registers 0x13
\* and 0x14 are accessed only after them, and no attribute exists and no
\* caller runs before both have been made. This holds for a re-bind as well.
C14_InitWritesComeFirstOnce ==
    /\ Len(log) >= 1 => log[1] = [op |-> "write", reg |-> 0, value |-> 0,
                                  by |-> "init_porta"]
    /\ Len(log) >= 2 => log[2] = [op |-> "write", reg |-> 1, value |-> 255,
                                  by |-> "init_portb"]
    /\ \A i \in 1..Len(log) :
        /\ log[i].reg \in {19, 20} => i >= 3
        /\ (log[i].by \in InitSites \/ log[i].reg \in {0, 1}) => i <= 2
    /\ ((\E a \in AttrNames : attr[a] # "absent")
        \/ (\E t \in Callers : pc[t] # "idle")
        \/ pc[Host] \in {"create_switch", "bound"})
        => Len(log) >= 2

\* C14 witness: in the second bind, after its two init writes, a write to
\* the output latch has been made.
C14_Witness ==
    /\ binds = 2
    /\ pc[Host] = "bound"
    /\ Len(log) >= 3
    /\ log[3].reg = 20

\* C15: a probe in which devm_kzalloc fails returns -ENOMEM (-12) at once:
\* no transfer is made, no register changes, no attribute is registered, the
\* mutex is untouched and the device stays unbound.
C15_AllocFailureFailsBind ==
    [][(binds' = binds + 1 /\ data'.alloc # "live") =>
        /\ pc'[Host] = "unbound"
        /\ rc'[Host] = -12
        /\ ntx'[Host] = 0
        /\ log' = log
        /\ chip' = chip
        /\ update_lock' = update_lock
        /\ \A a \in AttrNames : attr'[a] = "absent"]_vars

\* C15 witness: a re-bind has failed for lack of memory, after an earlier
\* bind and unbind.
C15_Witness ==
    /\ binds = 2
    /\ pc[Host] = "unbound"
    /\ rc[Host] = -12
    /\ data.alloc = "freed"


\* C17: for every integer v that set_chip_led accepts, negative ones and
\* ones above 255 included, chip_write_value receives v mod 65536 (the u16
\* cast) and the transport is handed v mod 256 for register 0x14: every byte
\* written to 0x14 is in 0..255 and is the wrap of an accepted integer, and a
\* successful write leaves that byte in the register.
C17_WrittenByteIsValueMod256 ==
    /\ \A t \in LedCallers :
        (Parses(buf[t]) /\ pc[t] \in {"w_lock", "w_xfer", "w_wait",
                                      "w_unlock", "w_ret"}) =>
            /\ value[t] \in 0..65535
            /\ value[t] = ParsedInt[buf[t]] % 65536
            /\ (pc[t] = "w_unlock" /\ val[t] = 0) =>
                /\ chip[20] = ParsedInt[buf[t]] % 256
                /\ chip[20] = ((ParsedInt[buf[t]] % 256) + 256) % 256
    /\ \A i \in 1..Len(log) :
        log[i].reg = 20 =>
            /\ log[i].value \in 0..255
            /\ \E x \in Texts : Parses(x) /\ log[i].value = ParsedInt[x] % 256
    /\ chip[20] \in 0..255

\* C17 witness: set_chip_led("-1") has written 255 to the output latch.
C17_Witness ==
    \E t \in LedCallers :
        /\ buf[t] = T_minus1
        /\ pc[t] = "w_ret"
        /\ val[t] = 0
        /\ chip[20] = 255

\* C19: every transfer ever issued is a write of 0x00 to register 0x00 or of
\* 0xFF to register 0x01 from chip_init_client, a write to register 0x14
\* from set_chip_led, or a read of register 0x13 from get_chip_switch; no
\* other register is addressed and no register is both read and written.
C19_OnlyTheFourTransfers ==
    /\ \A i \in 1..Len(log) :
        \/ log[i] = [op |-> "write", reg |-> 0, value |-> 0,
                     by |-> "init_porta"]
        \/ log[i] = [op |-> "write", reg |-> 1, value |-> 255,
                     by |-> "init_portb"]
        \/ log[i].op = "write" /\ log[i].reg = 20 /\ log[i].by = "set_chip_led"
        \/ log[i].op = "read" /\ log[i].reg = 19
            /\ log[i].by = "get_chip_switch"
    /\ \A i, j \in 1..Len(log) : log[i].reg = log[j].reg => log[i].op = log[j].op
    /\ \A t \in Threads :
        /\ pc[t] \in {"w_xfer", "w_wait"} =>
            \/ site[t] = "init_porta" /\ reg[t] = 0 /\ value[t] = 0
            \/ site[t] = "init_portb" /\ reg[t] = 1 /\ value[t] = 255
            \/ site[t] = "set_chip_led" /\ reg[t] = 20
        /\ pc[t] \in {"r_xfer", "r_wait"} =>
            site[t] = "get_chip_switch" /\ reg[t] = 19

\* C19 witness: one bind has issued all four kinds of transfer.
C19_Witness ==
    /\ Len(log) = 4
    /\ \E i \in 3..4 : log[i].op = "write" /\ log[i].reg = 20
    /\ \E i \in 3..4 : log[i].op = "read" /\ log[i].reg = 19


\* the state of the core: everything but the detect record and the count of
\* started operations
coreVars == <<pc, site, buf, reg, value, val, rc, out, ntx, update_lock,
              data, attr, chip, log, binds>>

\* C16: a chip_i2c_detect call, interleaved at any point with probe, the
\* attribute calls, remove and other detect calls, makes no transfer and
\* leaves every chip_data field, the mutex, the registers, the attributes and
\* every thread's position and result as they were; when it returns -ENODEV
\* the board info is as on entry, and its result depends on the candidate
\* only. No other step touches the detect record.
C16_DetectTouchesNothing ==
    [][/\ (det' # det \/ (calls' # calls /\ pc' = pc)) =>
            /\ UNCHANGED coreVars
            /\ det'.called
            /\ det'.ret = (IF "smbus_byte_data" \in det'.funcs
                              /\ det'.addr = 33 THEN 0 ELSE -19)
            /\ det'.ret = -19 => det'.type = det.type
            /\ det'.ret = 0 => det'.type = "chip_i2c"
       /\ coreVars' # coreVars => det' = det]_vars

\* C16 witness: detect has refused address 0x20 of a capable adapter while
\* an attribute call is inside its transfer, holding the mutex.
C16_Witness ==
    /\ det.called
    /\ det.ret = -19
    /\ det.addr = 32
    /\ "smbus_byte_data" \in det.funcs
    /\ \E t \in Callers : pc[t] \in {"w_wait", "r_wait"} /\ update_lock = t


\* the threads inside chip_write_value or chip_read_value
InTransaction == {t \in Threads :
                    pc[t] \in {"w_lock", "w_xfer", "w_wait", "w_unlock",
                               "r_lock", "r_xfer", "r_wait", "r_unlock"}}

\* C18: with transfers that complete or fail and a fairly granted mutex,
\* every chip_write_value and chip_read_value that was entered (from
\* set_chip_led, get_chip_switch or chip_init_client) returns, a held mutex
\* becomes free again, and whenever a thread is inside one of them some
\* thread inside one can take a step: no state is a deadlock.
C18_EveryTransactionReturns ==
    /\ \A t \in Threads : (t \in InTransaction) ~> (pc[t] \in Returned)
    /\ (update_lock # NoOne) ~> (update_lock = NoOne)
    /\ [](InTransaction # {} =>
            ENABLED (\E t \in Threads : TransactionStep(t) \/ LockStep(t)))

\* C18 witness: a set_chip_led caller waits in mutex_lock while a
\* get_chip_switch caller holds the mutex with a failed read, just before
\* its mutex_unlock.
C18_Witness ==
    \E t, u \in Callers :
        /\ pc[t] = "w_lock" /\ site[t] = "set_chip_led"
        /\ pc[u] = "r_unlock" /\ val[u] < 0 /\ update_lock = u

====
